---- MODULE Spec2Model ----
(***************************************************************************)
(* Agent graphs of the LangGraph tutorial scripts:                         *)
(*   4_ReAct.py     our_agent -> (should_continue) -> tools -> our_agent   *)
(*   5_Drafter.py   agent -> tools -> (should_continue) -> agent           *)
(*   6_RAG_Agent.py llm -> (should_continue) -> retriever_agent -> llm     *)
(* A state of the model is one execution of one compiled graph: the node   *)
(* to run next (pc), the messages channel, the Drafter's module-level      *)
(* document buffer and the file it saves to.  The language model, the      *)
(* retriever and the file system are the environment: what they return is  *)
(* chosen with \E.  Strings are sequences of word tokens, so that          *)
(* formatting and substring tests are computed and not assumed.            *)
(* Three further specifications share the module: SpecDivide (the divide   *)
(* tool on every pair of operands), SpecLoop (the input loops of           *)
(* 1_Agent_Bot.py, 3_Memory_Agent.py and 6_RAG_Agent.py, with the list     *)
(* objects of the memory agent), SpecIndex (the startups of                *)
(* 6_RAG_Agent.py against one persisted collection) and SpecLog (the       *)
(* memory agent's log written at exit and loaded at the next start).  Each *)
(* of them leaves the variables of the others at their idle values.        *)
(***************************************************************************)
EXTENDS Integers, Sequences, FiniteSets, TLC

\* one execution of a compiled graph
VARIABLES graph, pc, messages, label, nextId, llmCalls, rounds,
          document_content, file, invoked, retrieved
\* one run of a script's input loop; heap holds the list objects of the
\* memory agent and conversation_history names one of them
VARIABLES script, loop_pc, user_input, prompts, invocations, heap,
          conversation_history
\* the persisted Chroma collection over the startups of 6_RAG_Agent.py
VARIABLES texts, vectorstore, startups, found
\* the memory agent's history at exit, logging.txt, and the history the
\* next start loads from it
VARIABLES log_history, logging_txt, reloaded, log_pc

graphVars == <<graph, pc, messages, label, nextId, llmCalls, rounds,
               document_content, file, invoked, retrieved>>
loopVars == <<script, loop_pc, user_input, prompts, invocations, heap,
              conversation_history>>
indexVars == <<texts, vectorstore, startups, found>>
logVars == <<log_history, logging_txt, reloaded, log_pc>>

vars == <<graphVars, loopVars, indexVars, logVars>>

----------------------------------------------------------------------------
(* Bounds of the exploration *)

\* agent-node invocations explored per execution of the ReAct and RAG graphs
MaxLlmCalls == 3
\* agent-node invocations explored per execution of the Drafter graph
MaxTurns == 3
\* the operands of divide range over -MaxOperand..MaxOperand
MaxOperand == 4
\* input lines read in one run of a script's loop
MaxLines == 3
\* chunks the splitter makes of the source document
MaxChunks == 4
\* startups of the RAG script against one persist directory
MaxStartups == 4
\* exchanges (a User and an Assistant message) in a history that is logged
MaxLogTurns == 2
----------------------------------------------------------------------------
(* Messages *)

NoId == 0

HumanMessage(content) ==
    [type |-> "human", id |-> NoId, content |-> content,
     tool_calls |-> <<>>, tool_call_id |-> NoId, name |-> ""]

AIMessage(id, content, tool_calls) ==
    [type |-> "ai", id |-> id, content |-> content,
     tool_calls |-> tool_calls, tool_call_id |-> NoId, name |-> ""]

ToolMessage(content, name, tool_call_id) ==
    [type |-> "tool", id |-> NoId, content |-> content,
     tool_calls |-> <<>>, tool_call_id |-> tool_call_id, name |-> name]

Last(s) == s[Len(s)]

IsPrefix(s, t) == Len(s) <= Len(t) /\ \A i \in 1..Len(s) : t[i] = s[i]

\* str.lower() on one word token
Lower(w) ==
    CASE w = "Document" -> "document"
      [] w = "Saved"    -> "saved"
      [] w = "Error"    -> "error"
      [] w = "EXIT"     -> "exit"
      [] w = "Quit"     -> "quit"
      [] OTHER          -> w

\* `word in text.lower()`
InLower(word, text) == \E i \in 1..Len(text) : Lower(text[i]) = word

----------------------------------------------------------------------------
(* Reducers of the messages channel *)

\* operator.add on two lists (6_RAG_Agent.py imports it as add_messages)
operator_add(left, right) == left \o right

\* langgraph's add_messages: a message without an id gets a fresh one, a
\* message whose id is already in the history replaces that entry in place,
\* any other message is appended.
AssignIds(right, base) ==
    [i \in 1..Len(right) |->
        IF right[i].id = NoId THEN [right[i] EXCEPT !.id = base + i] ELSE right[i]]

\* the position a message id has in the history (the last one, as in the
\* reducer's dict of ids), 0 if none
IndexOfId(s, id) ==
    IF \E i \in 1..Len(s) : s[i].id = id
    THEN CHOOSE i \in 1..Len(s) : s[i].id = id /\ \A j \in (i+1)..Len(s) : s[j].id # id
    ELSE 0

\* left with the messages of right merged in: in place where the id is known,
\* appended in order where it is new
MergeById(left, right) ==
    LET final(id) == right[IndexOfId(right, id)]
        replaced == [i \in 1..Len(left) |->
                        IF IndexOfId(right, left[i].id) # 0 /\ IndexOfId(left, left[i].id) = i
                        THEN final(left[i].id) ELSE left[i]]
        fresh == SelectSeq([j \in 1..Len(right) |-> j],
                           LAMBDA j : /\ IndexOfId(left, right[j].id) = 0
                                      /\ \A k \in 1..(j-1) : right[k].id # right[j].id)
    IN  replaced \o [k \in 1..Len(fresh) |-> final(right[fresh[k]].id)]

add_messages(left, right, base) == MergeById(left, AssignIds(right, base))

----------------------------------------------------------------------------
(* The language model: one Assistant message per call, carrying zero or    *)
(* more tool-call requests.  The service gives the message and each        *)
(* request a fresh identifier.                                             *)

ToolCall(name, args) == [name |-> name, args |-> args]

\* the request sequences the fixture model may put in one response, per graph
ReActAdd == ToolCall("add", [a |-> 30, b |-> 12])
ReActMultiply == ToolCall("multiply", [a |-> 42, b |-> 6])
ReActDivide == ToolCall("divide", [a |-> 5, b |-> 0])
ReActUnknown == ToolCall("divide_by_zero_tool", [a |-> 5, b |-> 0])

ReActResponses ==
    { <<>>, <<ReActAdd>>, <<ReActMultiply>>, <<ReActDivide>>, <<ReActUnknown>>,
      <<ReActAdd, ReActUnknown>>, <<ReActUnknown, ReActAdd>> }

RagRetrieve == ToolCall("retrieve", [query |-> <<"sp500">>])
RagUnknown == ToolCall("divide_by_zero_tool", [query |-> <<"sp500">>])

RagResponses ==
    { <<>>, <<RagRetrieve>>, <<RagUnknown>>, <<RagRetrieve, RagUnknown>>,
      <<RagUnknown, RagRetrieve>>, <<RagRetrieve, RagRetrieve>> }

DrafterUpdate == ToolCall("update", [content |-> <<"hello">>])
DrafterUpdateSaved == ToolCall("update", [content |-> <<"I", "Saved", "it">>])
DrafterSave == ToolCall("save", [filename |-> <<"draft">>])
\* a file name with the word "saved" in it (saved_draft)
DrafterSaveSaved == ToolCall("save", [filename |-> <<"saved", "_draft">>])

DrafterResponses ==
    { <<>>, <<DrafterUpdate>>, <<DrafterUpdateSaved>>, <<DrafterSave>>,
      <<DrafterSaveSaved>>,
      <<DrafterUpdate, DrafterSave>>, <<DrafterSave, DrafterUpdate>> }

\* the Assistant message the service returns for the chosen requests
ModelResponse(calls, base) ==
    AIMessage(base + 1, <<"answer">>,
              [i \in 1..Len(calls) |->
                  [id |-> base + 1 + i, name |-> calls[i].name, args |-> calls[i].args]])

ResponseIds(calls) == 1 + Len(calls)

----------------------------------------------------------------------------
(* str() of the values the tools return *)

Digit(d) == <<"0", "1", "2", "3", "4", "5", "6", "7", "8", "9">>[d + 1]

RECURSIVE NatStr(_)
NatStr(n) == IF n < 10 THEN <<Digit(n)>> ELSE Append(NatStr(n \div 10), Digit(n % 10))

IntStr(n) == IF n < 0 THEN <<"-">> \o NatStr(-n) ELSE NatStr(n)

----------------------------------------------------------------------------
(* 4_ReAct.py: the arithmetic tools; a result is [kind, ...] *)

IntValue(n) == [kind |-> "int", num |-> n, den |-> 1]
FloatValue(num, den) == [kind |-> "float", num |-> num, den |-> den]
Infinity == [kind |-> "inf", num |-> 0, den |-> 0]

\* an exception leaving a tool
Raised(name) == [kind |-> name, num |-> 0, den |-> 0]

add(a, b) == IntValue(a + b)
multiply(a, b) == IntValue(a * b)
subtract(a, b) == IntValue(a - b)

\* divide without the test for zero: a / 0 raises
divide_NoGuard(a, b) == IF b = 0 THEN Raised("ZeroDivisionError") ELSE FloatValue(a, b)

divide(a, b) == IF b = 0 THEN Infinity ELSE FloatValue(a, b)

Abs(n) == IF n < 0 THEN -n ELSE n

\* str(result).  A float a / b prints with its sign (0 / -3 is -0.0); an
\* exact quotient prints as q.0, an inexact one is written numerator /
\* denominator in place of its decimal expansion.
ValueStr(v) ==
    CASE v.kind = "int" -> IntStr(v.num)
      [] v.kind = "inf" -> <<"inf">>
      [] v.kind = "float" ->
            LET n == Abs(v.num)
                d == Abs(v.den)
                neg == (v.num < 0 /\ v.den > 0) \/ (v.num >= 0 /\ v.den < 0)
                sign == IF neg THEN <<"-">> ELSE <<>>
            IN  IF n % d = 0
                THEN sign \o NatStr(n \div d) \o <<".", "0">>
                ELSE sign \o NatStr(n) \o <<"/">> \o NatStr(d)

react_tools == {"add", "multiply", "subtract", "divide"}

InvokeReActTool(name, args) ==
    CASE name = "add"      -> add(args.a, args.b)
      [] name = "multiply" -> multiply(args.a, args.b)
      [] name = "subtract" -> subtract(args.a, args.b)
      [] OTHER             -> divide(args.a, args.b)

----------------------------------------------------------------------------
(* 5_Drafter.py: update and save.  A tool reads and writes the module-level *)
(* document_content and the file system, passed here as env.               *)

NoFile == [written |-> FALSE, name |-> <<>>, content |-> <<>>]

endswith_txt(filename) == Len(filename) > 0 /\ Last(filename) = ".txt"

update(env, content) ==
    [doc    |-> content,
     file   |-> env.file,
     result |-> <<"Document", "successfully", "updated", ".",
                  "Current", "content", "is", ":">> \o content]

\* io_ok: whether open() and write() succeed
save(env, filename, io_ok) ==
    LET fname == IF endswith_txt(filename) THEN filename ELSE Append(filename, ".txt")
    IN  IF io_ok
        THEN [doc    |-> env.doc,
              file   |-> [written |-> TRUE, name |-> fname, content |-> env.doc],
              result |-> <<"Document", "successfully", "saved", "to">> \o fname \o <<".">>]
        ELSE [doc    |-> env.doc,
              file   |-> env.file,
              result |-> <<"Error", "saving", "document", ":",
                           "Permission", "denied", ":">> \o fname]

drafter_tools == {"update", "save"}

----------------------------------------------------------------------------
(* langgraph.prebuilt.ToolNode, as the ReAct and Drafter graphs use it:    *)
(* one ToolMessage per request of the last Assistant message, in request   *)
(* order, each with the request's id and name.  An unknown name or a       *)
(* failing tool becomes an error content, never an exception.  The tools   *)
(* of one message run on a thread pool: their effects take place in some   *)
(* order, the results are returned in request order.                       *)

Env(doc, f) == [doc |-> doc, file |-> f]

ToolNodeRunOne(registry, call, env, io_ok) ==
    IF call.name \notin registry
    THEN [doc |-> env.doc, file |-> env.file,
          result |-> <<"Error", ":", call.name, "is", "not", "a", "valid", "tool">>]
    ELSE CASE call.name = "update" -> update(env, call.args.content)
           [] call.name = "save"   -> save(env, call.args.filename, io_ok)
           [] OTHER -> LET v == InvokeReActTool(call.name, call.args)
                       IN  [doc |-> env.doc, file |-> env.file,
                            result |-> IF v.kind \in {"int", "float", "inf"}
                                       THEN ValueStr(v)
                                       ELSE <<"Error", ":", v.kind>>]

RECURSIVE ToolNodeRun(_, _, _, _, _, _)
\* runs the calls in the order given; res collects the contents by request index
ToolNodeRun(registry, tool_calls, order, io, env, res) ==
    IF order = <<>>
    THEN [doc |-> env.doc, file |-> env.file, contents |-> res]
    ELSE LET i == Head(order)
             r == ToolNodeRunOne(registry, tool_calls[i], env, io[i])
         IN  ToolNodeRun(registry, tool_calls, Tail(order), io,
                         Env(r.doc, r.file), [res EXCEPT ![i] = r.result])

ToolNode(registry, state, order, io, doc, f) ==
    LET tool_calls == Last(state).tool_calls
        run == ToolNodeRun(registry, tool_calls, order, io, Env(doc, f),
                           [i \in 1..Len(tool_calls) |-> <<>>])
    IN  [doc |-> run.doc, file |-> run.file,
         messages |-> [i \in 1..Len(tool_calls) |->
                          ToolMessage(run.contents[i], tool_calls[i].name,
                                      tool_calls[i].id)]]

\* the orders in which n calls can take effect
Orders(n) == { o \in [1..n -> 1..n] : \A i \in 1..n : \E k \in 1..n : o[k] = i }

----------------------------------------------------------------------------
(* 6_RAG_Agent.py: the retrieve tool and the dispatcher take_action *)

\* search_kwargs k: the retriever returns at most this many chunks
TopK == 5

\* what retriever.invoke(query) does: raise, or return the top chunks
RetrieverOutcomes ==
    { [raises |-> TRUE,  docs |-> <<>>],
      [raises |-> FALSE, docs |-> <<>>],
      [raises |-> FALSE, docs |-> <<"chunk7", "chunk2">>] }

RECURSIVE JoinResults(_, _)
JoinResults(docs, i) ==
    IF i > Len(docs) THEN <<>>
    ELSE (IF i > 1 THEN <<"\n\n">> ELSE <<>>)
         \o <<"Result", Digit(i), ":", docs[i]>> \o JoinResults(docs, i + 1)

\* retrieve without the test for an empty result
retrieve_NoNotice(docs) == JoinResults(docs, 1)

retrieve(docs) ==
    IF docs = <<>>
    THEN <<"No", "relevant", "information", "found", "in", "the", "document", ".">>
    ELSE JoinResults(docs, 1)

tools_dict == {"retrieve"}

InvalidToolNotice ==
    <<"Incorrect", "tool", "name", ",", "Please", "retry", "and", "select",
      "a", "valid", "tool">>

RECURSIVE take_action_loop(_, _, _, _, _)
\* the for loop of take_action from request i on; outs[i] is what the
\* retriever does if request i reaches it
take_action_loop(tool_calls, outs, i, results, called) ==
    IF i > Len(tool_calls)
    THEN [raised |-> FALSE, messages |-> results, called |-> called]
    ELSE LET t == tool_calls[i]
         IN  IF t.name \notin tools_dict
             THEN take_action_loop(tool_calls, outs, i + 1,
                      Append(results, ToolMessage(InvalidToolNotice, t.name, t.id)),
                      called)
             ELSE IF outs[i].raises
                  THEN [raised |-> TRUE, messages |-> <<>>,
                        called |-> Append(called, t.id)]
                  ELSE take_action_loop(tool_calls, outs, i + 1,
                           Append(results,
                                  ToolMessage(retrieve(outs[i].docs), t.name, t.id)),
                           Append(called, t.id))

IsUnknown(t) == t.name \notin tools_dict

\* what retriever.invoke handed back to retrieve during one take_action:
\* the chunk lists of the requests that reached the retriever and returned
RetrieverReturns(tool_calls, outs) ==
    LET returned(i) == /\ tool_calls[i].name \in tools_dict
                       /\ \A j \in 1..i : tool_calls[j].name \in tools_dict
                                             => ~outs[j].raises
        idx == SelectSeq([i \in 1..Len(tool_calls) |-> i], returned)
    IN  [k \in 1..Len(idx) |-> outs[idx[k]].docs]

\* variants of take_action with one slip each
take_action_SkipUnknown(state, outs) ==
    LET r == take_action_loop(Last(state).tool_calls, outs, 1, <<>>, <<>>)
    IN  [r EXCEPT !.messages = SelectSeq(r.messages, LAMBDA m : m.name \in tools_dict)]

take_action_NameAsId(state, outs) ==
    LET r == take_action_loop(Last(state).tool_calls, outs, 1, <<>>, <<>>)
    IN  [r EXCEPT !.messages =
            [i \in 1..Len(r.messages) |-> [r.messages[i] EXCEPT !.tool_call_id = NoId]]]

take_action_Prepend(state, outs) ==
    LET r == take_action_loop(Last(state).tool_calls, outs, 1, <<>>, <<>>)
        n == Len(r.messages)
    IN  [r EXCEPT !.messages = [i \in 1..n |-> r.messages[n + 1 - i]]]

take_action_KeyError(state, outs) ==
    LET r == take_action_loop(Last(state).tool_calls, outs, 1, <<>>, <<>>)
        calls == Last(state).tool_calls
    IN  IF \E i \in 1..Len(calls) : IsUnknown(calls[i])
        THEN [raised |-> TRUE, messages |-> <<>>, called |-> <<>>]
        ELSE r

take_action(state, outs) ==
    take_action_loop(Last(state).tool_calls, outs, 1, <<>>, <<>>)

----------------------------------------------------------------------------
(* State schemas: the reducer each AgentState attaches to "messages" *)

\* a schema without the reducer annotation: the node's value overwrites
AgentState_NoReducer(left, right, base) == AssignIds(right, base)

AgentState_ReAct(left, right, base) == add_messages(left, right, base)

\* the Drafter's schema with the list concatenation that 6_RAG_Agent.py uses
AgentState_Concat(left, right, base) == operator_add(left, right)

AgentState_Drafter(left, right, base) == add_messages(left, right, base)

AgentState_RAG(left, right, base) == operator_add(left, right)

----------------------------------------------------------------------------
(* Routing functions.  The value is the label returned, or the name of the *)
(* exception raised ("IndexError", "AttributeError"), or "None" when the    *)
(* function falls off its end.                                             *)

\* variants of the routing functions with one slip each
should_continue_Inverted(state) ==
    IF state = <<>> THEN "IndexError"
    ELSE IF Last(state).type # "ai" THEN "AttributeError"
    ELSE IF Last(state).tool_calls # <<>> THEN "end"
    ELSE "continue"

should_continue_Always(state) == "True"

should_continue_Capped(state) ==
    IF state = <<>> THEN "IndexError"
    ELSE IF Last(state).type = "ai" /\ Len(Last(state).tool_calls) > 0
            /\ Len(SelectSeq(state, LAMBDA m : m.type = "ai")) < 2
         THEN "True"
    ELSE "False"

RECURSIVE should_continue_ScanAll(_, _)
should_continue_ScanAll(state, i) ==
    IF i < 1 THEN "None"
    ELSE IF /\ state[i].type = "tool"
            /\ InLower("saved", state[i].content)
            /\ InLower("document", state[i].content)
         THEN "end"
         ELSE should_continue_ScanAll(state, i - 1)

\* 4_ReAct.py
should_continue_ReAct(state) ==
    IF state = <<>> THEN "IndexError"
    ELSE IF Last(state).type # "ai" THEN "AttributeError"
    ELSE IF Last(state).tool_calls = <<>> THEN "end"
    ELSE "continue"

\* 6_RAG_Agent.py; the labels are the booleans, written "True" and "False"
should_continue_RAG(state) ==
    IF state = <<>> THEN "IndexError"
    ELSE IF Last(state).type = "ai" /\ Len(Last(state).tool_calls) > 0 THEN "True"
    ELSE "False"

RECURSIVE should_continue_scan(_, _)
\* 5_Drafter.py: the body of `for message in reversed(messages)` at index i
should_continue_scan(state, i) ==
    IF i < 1 THEN "None"
    ELSE IF /\ state[i].type = "tool"
            /\ InLower("saved", state[i].content)
            /\ InLower("document", state[i].content)
         THEN "end"
         ELSE "continue"

should_continue_Drafter(state) ==
    IF state = <<>> THEN "continue"
    ELSE should_continue_scan(state, Len(state))

\* the mappings given to add_conditional_edges
ReActEdges == [continue |-> "tools", end |-> "END"]
DrafterEdges == [continue |-> "agent", end |-> "END"]
RagEdges == [True |-> "retriever_agent", False |-> "END"]

Raises == {"IndexError", "AttributeError"}

\* the executor following a conditional edge
ConditionalEdge(mapping, lbl) ==
    IF lbl \in Raises THEN "raised"
    ELSE IF lbl \in DOMAIN mapping THEN mapping[lbl]
    ELSE "config_error"

----------------------------------------------------------------------------
(* Node functions: the update each node returns for "messages" *)

\* 4_ReAct.py
model_call(state, response) == <<response>>

\* 6_RAG_Agent.py
call_llm(state, response) == <<response>>

\* 5_Drafter.py
GreetingInput == <<"I'm", "ready", "to", "help">>
UserInputs == { <<"please", "continue">> }

our_agent(state, user_message, response) == state \o <<user_message, response>>

----------------------------------------------------------------------------
(* The executions *)

\* the parts of the state that an execution of a graph, a run of an input
\* loop, or the startups of the RAG script leave alone
GraphIdle ==
    /\ graph = "none" /\ pc = "none" /\ messages = <<>> /\ label = "none"
    /\ nextId = 1 /\ llmCalls = 0 /\ rounds = 0
    /\ document_content = <<>> /\ file = NoFile
    /\ invoked = <<>> /\ retrieved = <<>>

LoopIdle ==
    /\ script = "none" /\ loop_pc = "none" /\ user_input = "" /\ prompts = 0
    /\ invocations = 0 /\ heap = <<>> /\ conversation_history = 0

IndexIdle ==
    /\ texts = <<>> /\ vectorstore = <<>> /\ startups = 0 /\ found = <<>>

LogIdle ==
    /\ log_history = <<>> /\ logging_txt = <<>> /\ reloaded = <<>>
    /\ log_pc = "none"

Graphs == {"react", "rag", "drafter"}

EntryPoint(g) ==
    CASE g = "react" -> "our_agent" [] g = "rag" -> "llm" [] OTHER -> "agent"

\* the state each script hands to the compiled graph
Inputs(g) ==
    CASE g = "react" ->
            AgentState_ReAct(<<>>, <<HumanMessage(<<"Add", "30", "+", "12">>)>>, 0)
      [] g = "rag" ->
            AgentState_RAG(<<>>, <<HumanMessage(<<"question">>)>>, 0)
      [] OTHER -> <<>>

Init ==
    /\ graph \in Graphs
    /\ pc = EntryPoint(graph)
    /\ messages = Inputs(graph)
    /\ label = "none"
    /\ nextId = 1
    /\ llmCalls = 0
    /\ rounds = 0
    /\ document_content = <<>>
    /\ file = NoFile
    /\ invoked = <<>>
    /\ retrieved = <<>>
    /\ LoopIdle /\ IndexIdle /\ LogIdle

\* ReAct: node our_agent, then the conditional edge
ReActAgent ==
    /\ graph = "react" /\ pc = "our_agent"
    /\ llmCalls < MaxLlmCalls
    /\ \E calls \in ReActResponses :
       \E response \in {ModelResponse(calls, nextId)} :
       \E new \in {AgentState_ReAct(messages, model_call(messages, response),
                                    nextId + ResponseIds(calls))} :
       \E lbl \in {should_continue_ReAct(new)} :
          /\ messages' = new
          /\ nextId' = nextId + ResponseIds(calls) + 1
          /\ label' = lbl
          /\ pc' = ConditionalEdge(ReActEdges, lbl)
    /\ llmCalls' = llmCalls + 1
    /\ UNCHANGED <<graph, rounds, document_content, file, invoked, retrieved>>
    /\ UNCHANGED <<loopVars, indexVars, logVars>>

\* ReAct: node tools, then the edge back to our_agent
ReActTools ==
    /\ graph = "react" /\ pc = "tools"
    /\ \E n \in {Len(Last(messages).tool_calls)} :
       \E out \in {ToolNode(react_tools, messages, [i \in 1..n |-> i],
                            [i \in 1..n |-> TRUE], document_content, file)} :
          /\ messages' = AgentState_ReAct(messages, out.messages, nextId)
          /\ nextId' = nextId + n
    /\ rounds' = rounds + 1
    /\ pc' = "our_agent"
    /\ UNCHANGED <<graph, label, llmCalls, document_content, file, invoked, retrieved>>
    /\ UNCHANGED <<loopVars, indexVars, logVars>>

\* RAG: node llm, then the conditional edge
RagLlm ==
    /\ graph = "rag" /\ pc = "llm"
    /\ llmCalls < MaxLlmCalls
    /\ \E calls \in RagResponses :
       \E response \in {ModelResponse(calls, nextId)} :
       \E new \in {AgentState_RAG(messages, call_llm(messages, response),
                                  nextId + ResponseIds(calls))} :
       \E lbl \in {should_continue_RAG(new)} :
          /\ messages' = new
          /\ nextId' = nextId + ResponseIds(calls) + 1
          /\ label' = lbl
          /\ pc' = ConditionalEdge(RagEdges, lbl)
    /\ llmCalls' = llmCalls + 1
    /\ UNCHANGED <<graph, rounds, document_content, file, invoked, retrieved>>
    /\ UNCHANGED <<loopVars, indexVars, logVars>>

\* RAG: node retriever_agent, then the edge back to llm; an exception of a
\* tool leaves take_action and the graph, and the state is not updated
RagTakeAction ==
    /\ graph = "rag" /\ pc = "retriever_agent"
    /\ \E outs \in [1..Len(Last(messages).tool_calls) -> RetrieverOutcomes] :
       \E r \in {take_action(messages, outs)} :
          /\ invoked' = r.called
          /\ retrieved' = RetrieverReturns(Last(messages).tool_calls, outs)
          /\ IF r.raised
             THEN /\ pc' = "raised"
                  /\ UNCHANGED <<messages, rounds>>
             ELSE /\ pc' = "llm"
                  /\ messages' = AgentState_RAG(messages, r.messages, nextId)
                  /\ rounds' = rounds + 1
    /\ UNCHANGED <<graph, label, nextId, llmCalls, document_content, file>>
    /\ UNCHANGED <<loopVars, indexVars, logVars>>

\* Drafter: node agent, then the edge to tools
DrafterAgent ==
    /\ graph = "drafter" /\ pc = "agent"
    /\ llmCalls < MaxTurns
    /\ \E calls \in DrafterResponses :
       \E typed \in (IF messages = <<>> THEN {GreetingInput} ELSE UserInputs) :
       \E response \in {ModelResponse(calls, nextId)} :
       \E out \in {our_agent(messages, HumanMessage(typed), response)} :
          /\ messages' = AgentState_Drafter(messages, out, nextId + ResponseIds(calls))
          /\ nextId' = nextId + ResponseIds(calls) + Len(out)
    /\ llmCalls' = llmCalls + 1
    /\ pc' = "tools"
    /\ UNCHANGED <<graph, label, rounds, document_content, file, invoked, retrieved>>
    /\ UNCHANGED <<loopVars, indexVars, logVars>>

\* Drafter: node tools, then the conditional edge
DrafterTools ==
    /\ graph = "drafter" /\ pc = "tools"
    /\ \E n \in {Len(Last(messages).tool_calls)} :
       \E order \in Orders(n) : \E io \in [1..n -> BOOLEAN] :
       \E out \in {ToolNode(drafter_tools, messages, order, io,
                            document_content, file)} :
       \E new \in {AgentState_Drafter(messages, out.messages, nextId)} :
       \E lbl \in {should_continue_Drafter(new)} :
          /\ messages' = new
          /\ nextId' = nextId + n
          /\ document_content' = out.doc
          /\ file' = out.file
          /\ label' = lbl
          /\ pc' = ConditionalEdge(DrafterEdges, lbl)
    /\ rounds' = rounds + 1
    /\ UNCHANGED <<graph, llmCalls, invoked, retrieved>>
    /\ UNCHANGED <<loopVars, indexVars, logVars>>

Next ==
    \/ ReActAgent
    \/ ReActTools
    \/ RagLlm
    \/ RagTakeAction
    \/ DrafterAgent
    \/ DrafterTools

Spec == Init /\ [][Next]_vars

\* the executor is synchronous and every node call returns (or raises): a
\* step that can be taken is taken
FairSpec == Spec /\ WF_vars(Next)

----------------------------------------------------------------------------
(* divide on its own: the ReAct graph at the moment the model has asked    *)
(* for divide(a, b), for every pair of operands; the tools node applies it *)

Operands == (-MaxOperand)..MaxOperand

InitDivide ==
    /\ graph = "react"
    /\ pc = "tools"
    /\ \E a \in Operands, b \in Operands :
          messages = AgentState_ReAct(
                         Inputs("react"),
                         model_call(Inputs("react"),
                                    ModelResponse(<<ToolCall("divide", [a |-> a, b |-> b])>>, 1)),
                         3)
    /\ label = "continue"
    /\ nextId = 4
    /\ llmCalls = 1
    /\ rounds = 0
    /\ document_content = <<>>
    /\ file = NoFile
    /\ invoked = <<>>
    /\ retrieved = <<>>
    /\ LoopIdle /\ IndexIdle /\ LogIdle

NextDivide == ReActTools

SpecDivide == InitDivide /\ [][NextDivide]_vars

----------------------------------------------------------------------------
(* The input loops of 1_Agent_Bot.py, 3_Memory_Agent.py and 6_RAG_Agent.py. *)
(* A state is taken where a line has been read and the loop's test is next; *)
(* one step is the test and, if the loop goes on, the invocation of the     *)
(* agent and the next input().                                              *)

Scripts == {"bot", "memory", "rag"}

\* the lines the user may type
InputLines == {"exit", "EXIT", "quit", "Quit", "hello"}

\* the test that leaves the loop
LoopEnds(s, line) ==
    IF s = "rag"
    THEN Lower(line) \in {"exit", "quit"}
    ELSE Lower(line) = "exit"

\* what the model answers in the plain chat scripts
ChatAnswers == { <<"answer">> }

\* what load_conversation_from_file found in logging.txt: nothing, or one
\* exchange (the loaded contents keep their line ends)
LoadedHistories ==
    { <<>>,
      << HumanMessage(<<"hi", "\n">>), AIMessage(NoId, <<"hello", "\n">>, <<>>) >> }

\* the process_message of 1_Agent_Bot.py in the memory agent: the answer
\* is printed and the state returned as it came
process_message_NoAppend(h, ref, response) == [heap |-> h, ref |-> ref]

\* a process_message that builds a new list instead of appending to the
\* one it was given
process_message_Copy(h, ref, response) ==
    [heap |-> Append(h, Append(h[ref], AIMessage(NoId, response, <<>>))),
     ref  |-> Len(h) + 1]

\* 3_Memory_Agent.py: process_message appends the answer to the list object
\* state["message"] and returns the same state
process_message(h, ref, response) ==
    [heap |-> [h EXCEPT ![ref] = Append(@, AIMessage(NoId, response, <<>>))],
     ref  |-> ref]

\* how rag_agent.invoke comes back to the loop
RagInvokeOutcomes == {"returned", "raised"}

LoopInit ==
    /\ script \in Scripts
    /\ loop_pc = "test"
    /\ user_input \in InputLines
    /\ prompts = 1
    /\ invocations = 0
    /\ IF script = "memory"
       THEN /\ \E loaded \in LoadedHistories : heap = <<loaded>>
            /\ conversation_history = 1
       ELSE /\ heap = <<>>
            /\ conversation_history = 0
    /\ GraphIdle /\ IndexIdle /\ LogIdle

\* input(): the next line, while the exploration has lines left
NextInput ==
    /\ prompts < MaxLines
    /\ prompts' = prompts + 1
    /\ user_input' \in InputLines

BotTurn ==
    /\ script = "bot" /\ loop_pc = "test"
    /\ IF LoopEnds("bot", user_input)
       THEN /\ loop_pc' = "done"
            /\ UNCHANGED <<user_input, prompts, invocations>>
       ELSE /\ invocations' = invocations + 1
            /\ NextInput
            /\ loop_pc' = "test"
    /\ UNCHANGED <<script, heap, conversation_history>>
    /\ UNCHANGED <<graphVars, indexVars, logVars>>

MemoryTurn ==
    /\ script = "memory" /\ loop_pc = "test"
    /\ IF LoopEnds("memory", user_input)
       THEN /\ loop_pc' = "done"
            /\ UNCHANGED <<user_input, prompts, invocations, heap,
                           conversation_history>>
       ELSE /\ \E response \in ChatAnswers :
               \E appended \in {[heap EXCEPT ![conversation_history] =
                                    Append(@, HumanMessage(<<user_input>>))]} :
               \E result \in {process_message(appended, conversation_history,
                                               response)} :
                  /\ heap' = result.heap
                  /\ conversation_history' = result.ref
            /\ invocations' = invocations + 1
            /\ NextInput
            /\ loop_pc' = "test"
    /\ UNCHANGED script
    /\ UNCHANGED <<graphVars, indexVars, logVars>>

RagTurn ==
    /\ script = "rag" /\ loop_pc = "test"
    /\ IF LoopEnds("rag", user_input)
       THEN /\ loop_pc' = "done"
            /\ UNCHANGED <<user_input, prompts, invocations>>
       ELSE /\ invocations' = invocations + 1
            /\ \E outcome \in RagInvokeOutcomes :
                  IF outcome = "raised"
                  THEN /\ loop_pc' = "raised"
                       /\ UNCHANGED <<user_input, prompts>>
                  ELSE /\ NextInput
                       /\ loop_pc' = "test"
    /\ UNCHANGED <<script, heap, conversation_history>>
    /\ UNCHANGED <<graphVars, indexVars, logVars>>

NextLoop ==
    \/ BotTurn
    \/ MemoryTurn
    \/ RagTurn

SpecLoop == LoopInit /\ [][NextLoop]_vars

----------------------------------------------------------------------------
(* 6_RAG_Agent.py at module level: every startup splits the PDF and hands  *)
(* the chunks to Chroma.from_documents with the same persist_directory and *)
(* collection_name; the retriever then searches the persisted collection.  *)

ChunkName(i) == <<"chunk1", "chunk2", "chunk3", "chunk4", "chunk5", "chunk6">>[i]

\* text_splitter.split_documents(documents): the chunks of a document, the
\* same at every startup
SplitDocuments(n) == [i \in 1..n |-> ChunkName(i)]

\* Chroma.from_documents without ids: each text is added to the collection
\* under a new id, whatever the collection holds
from_documents(collection, documents) ==
    collection \o [i \in 1..Len(documents) |->
                      [id |-> Len(collection) + i, page_content |-> documents[i]]]

\* the orders of similarity a query can put the chunks in
Rankings(documents) ==
    { q \in [1..Len(documents) -> 1..Len(documents)] :
        \A i, j \in 1..Len(documents) : q[i] = q[j] => i = j }

RECURSIVE RankedEntries(_, _, _, _)
\* the entries of the collection by descending similarity: entries with
\* the same text have the same embedding and score
RankedEntries(collection, documents, q, i) ==
    IF i > Len(q) THEN <<>>
    ELSE SelectSeq(collection, LAMBDA e : e.page_content = documents[q[i]])
         \o RankedEntries(collection, documents, q, i + 1)

\* retriever.invoke(query): the page contents of the k most similar entries
similarity_search(collection, documents, q, k) ==
    LET ranked == RankedEntries(collection, documents, q, 1)
        n == IF Len(ranked) < k THEN Len(ranked) ELSE k
    IN  [i \in 1..n |-> ranked[i].page_content]

IndexInit ==
    /\ \E n \in 1..MaxChunks : texts = SplitDocuments(n)
    /\ vectorstore = <<>>
    /\ startups = 0
    /\ found = <<>>
    /\ GraphIdle /\ LoopIdle /\ LogIdle

\* one run of the script up to the retriever setup
Startup ==
    /\ startups < MaxStartups
    /\ vectorstore' = from_documents(vectorstore, texts)
    /\ startups' = startups + 1
    /\ found' = <<>>
    /\ UNCHANGED texts
    /\ UNCHANGED <<graphVars, loopVars, logVars>>

\* one retriever.invoke during a run
Search ==
    /\ startups >= 1
    /\ \E q \in Rankings(texts) :
          found' = similarity_search(vectorstore, texts, q, TopK)
    /\ UNCHANGED <<texts, vectorstore, startups>>
    /\ UNCHANGED <<graphVars, loopVars, logVars>>

NextIndex ==
    \/ Startup
    \/ Search

SpecIndex == IndexInit /\ [][NextIndex]_vars

----------------------------------------------------------------------------
(* 3_Memory_Agent.py: the log written when the loop is left, and           *)
(* load_conversation_from_file at the next start.  The file is a sequence  *)
(* of tokens, "\n" being the line end; the prefixes "You: " and "AI: " are  *)
(* tokens of their own, also where they occur inside a content.            *)

\* single-line contents a message can have
LogContents == { <<"hi">>, <<"You: ", "hi">>, <<"AI: ", "ok">> }

RECURSIVE Exchanges(_)
\* the histories of n exchanges the loop builds from an empty history
Exchanges(n) ==
    IF n = 0 THEN { <<>> }
    ELSE { h \o << HumanMessage(u), AIMessage(NoId, a, <<>>) >> :
             h \in Exchanges(n - 1), u \in LogContents, a \in LogContents }

LogHistories == UNION { Exchanges(n) : n \in 0..MaxLogTurns }

RECURSIVE WriteMessages(_, _)
\* the for loop of the log writer from message i on
WriteMessages(h, i) ==
    IF i > Len(h) THEN <<>>
    ELSE (IF h[i].type = "human"
          THEN <<"You: ">> \o h[i].content \o <<"\n">>
          ELSE IF h[i].type = "ai"
               THEN <<"AI: ">> \o h[i].content \o <<"\n", "\n">>
               ELSE <<>>)
         \o WriteMessages(h, i + 1)

\* what the script writes to logging.txt
WriteLog(h) ==
    <<"Your Conversation Log:", "\n">> \o WriteMessages(h, 1)
    \o <<"End of Conversation">>

RECURSIVE ReadLines(_, _)
\* file.readlines(): the lines of the file, each with its line end
ReadLines(tokens, line) ==
    IF tokens = <<>>
    THEN (IF line = <<>> THEN <<>> ELSE <<line>>)
    ELSE IF Head(tokens) = "\n"
         THEN <<Append(line, "\n")>> \o ReadLines(Tail(tokens), <<>>)
         ELSE ReadLines(Tail(tokens), Append(line, Head(tokens)))

\* line.replace(prefix, ""): every occurrence is removed
Replace(line, prefix) == SelectSeq(line, LAMBDA t : t # prefix)

\* a loader that cuts the prefix and the line end off the line
LoadLine_Strip(line) ==
    IF Len(line) > 0 /\ line[1] = "You: "
    THEN <<HumanMessage(SelectSeq(Tail(line), LAMBDA t : t # "\n"))>>
    ELSE IF Len(line) > 0 /\ line[1] = "AI: "
         THEN <<AIMessage(NoId, SelectSeq(Tail(line), LAMBDA t : t # "\n"), <<>>)>>
         ELSE <<>>

\* the body of the loader's loop: the messages one line adds to history
LoadLine(line) ==
    IF Len(line) > 0 /\ line[1] = "You: "
    THEN <<HumanMessage(Replace(line, "You: "))>>
    ELSE IF Len(line) > 0 /\ line[1] = "AI: "
         THEN <<AIMessage(NoId, Replace(line, "AI: "), <<>>)>>
         ELSE <<>>

RECURSIVE LoadLines(_, _)
LoadLines(lines, i) ==
    IF i > Len(lines) THEN <<>>
    ELSE LoadLine(lines[i]) \o LoadLines(lines, i + 1)

load_conversation_from_file(tokens) == LoadLines(ReadLines(tokens, <<>>), 1)

LogInit ==
    /\ log_history \in LogHistories
    /\ logging_txt = <<>>
    /\ reloaded = <<>>
    /\ log_pc = "exit"
    /\ GraphIdle /\ LoopIdle /\ IndexIdle

\* the loop has been left: the history is written to logging.txt
WriteLogFile ==
    /\ log_pc = "exit"
    /\ logging_txt' = WriteLog(log_history)
    /\ log_pc' = "written"
    /\ UNCHANGED <<log_history, reloaded>>
    /\ UNCHANGED <<graphVars, loopVars, indexVars>>

\* the next start of the script loads the history from logging.txt
LoadLogFile ==
    /\ log_pc = "written"
    /\ reloaded' = load_conversation_from_file(logging_txt)
    /\ log_pc' = "loaded"
    /\ UNCHANGED <<log_history, logging_txt>>
    /\ UNCHANGED <<graphVars, loopVars, indexVars>>

NextLog ==
    \/ WriteLogFile
    \/ LoadLogFile

SpecLog == LogInit /\ [][NextLog]_vars

----------------------------------------------------------------------------
(* Properties *)

AgentNode(g) == EntryPoint(g)
ToolsNode(g) == IF g = "rag" THEN "retriever_agent" ELSE "tools"

\* the tool-call requests of the history, as <<position, request>>
Requests(state) ==
    UNION { { <<i, state[i].tool_calls[k]>> : k \in 1..Len(state[i].tool_calls) } :
            i \in 1..Len(state) }

ToolResults(state) == { j \in 1..Len(state) : state[j].type = "tool" }

\* C1: in the three graphs every step of the executor (a node and the reducer)
\* leaves the earlier messages where they were and removes none: the history
\* before the step is a prefix of the history after it.
C1_AppendOnly == [][IsPrefix(messages, messages')]_vars

\* the Drafter's agent node returned the whole history a second and third time
C1_Witness ==
    /\ graph = "drafter" /\ llmCalls = 3 /\ rounds = 2 /\ Len(messages) >= 6

\* C2: when an execution of any of the three graphs is at END, every
\* tool-call request of every Assistant message has a ToolMessage with the
\* request's id later in the history.
C2_NoDanglingAtEnd ==
    pc = "END" =>
        \A r \in Requests(messages) :
            \E j \in ToolResults(messages) :
                j > r[1] /\ messages[j].tool_call_id = r[2].id

\* a RAG execution ended after a round that held an unknown tool
C2_Witness ==
    /\ graph = "rag" /\ pc = "END" /\ rounds >= 1
    /\ \E r \in Requests(messages) : IsUnknown(r[2])

\* C3: in a final state of the RAG graph every ToolMessage answers exactly
\* one request, and that request is in an earlier Assistant message.
C3_NoOrphanResult ==
    (graph = "rag" /\ pc = "END") =>
        \A j \in ToolResults(messages) :
            Cardinality({ r \in Requests(messages) :
                            r[2].id = messages[j].tool_call_id }) = 1
            /\ \E r \in Requests(messages) :
                  r[2].id = messages[j].tool_call_id /\ r[1] < j

\* a RAG execution ended with four results, of two rounds of two requests
C3_Witness ==
    /\ graph = "rag" /\ pc = "END"
    /\ Cardinality(ToolResults(messages)) = 4

\* C4: a step of take_action that returns appends, for the n requests of the
\* last Assistant message, exactly n ToolMessages, the i-th with the id and
\* the name of the i-th request.
C4_Dispatch ==
    (graph = "rag" /\ pc = "retriever_agent" /\ pc' = "llm") =>
        LET calls == Last(messages).tool_calls
            n == Len(calls)
            old == Len(messages)
        IN  /\ Len(messages') = old + n
            /\ \A i \in 1..n :
                  /\ messages'[old + i].type = "tool"
                  /\ messages'[old + i].tool_call_id = calls[i].id
                  /\ messages'[old + i].name = calls[i].name

C4_OrderPreserving == [][C4_Dispatch]_vars

\* take_action returned for a message of two requests with different names
C4_Witness ==
    /\ graph = "rag" /\ pc = "llm" /\ rounds = 1 /\ Len(messages) = 4
    /\ messages[3].name # messages[4].name

\* C5: in a step of take_action, a request naming an unregistered tool
\* invokes no tool; the registered requests up to the first failing one are
\* invoked in request order; the step aborts only if an invoked tool raised,
\* never because of the unknown name; and when the step returns, the result
\* at the request's position carries its id and the invalid-tool notice and
\* the next node is llm.
C5_Dispatch ==
    (graph = "rag" /\ pc = "retriever_agent") =>
        LET calls == Last(messages).tool_calls
            n == Len(calls)
            old == Len(messages)
            known == SelectSeq(calls, LAMBDA t : ~IsUnknown(t))
        IN  /\ \A i \in 1..n : IsUnknown(calls[i]) =>
                  /\ \A k \in 1..Len(invoked') : invoked'[k] # calls[i].id
                  /\ pc' = "llm" =>
                        messages'[old + i] =
                            ToolMessage(InvalidToolNotice, calls[i].name, calls[i].id)
            /\ pc' \in {"llm", "raised"}
            /\ pc' = "raised" => invoked' # <<>>
            /\ pc' = "llm" => invoked' = [k \in 1..Len(known) |-> known[k].id]
            /\ Len(invoked') <= Len(known)
            /\ \A k \in 1..Len(invoked') : invoked'[k] = known[k].id

C5_UnknownTool == [][C5_Dispatch]_vars

\* an unknown request came first, the retrieve after it was still invoked,
\* and the agent node is next
C5_Witness ==
    /\ graph = "rag" /\ pc = "llm" /\ rounds = 1 /\ Len(messages) = 4
    /\ messages[3].content = InvalidToolNotice
    /\ messages[4].name = "retrieve"
    /\ Len(invoked) = 1

\* C6: a step of a tool node (take_action of the RAG graph, ToolNode of the
\* Drafter graph) never lets a tool's failure out: the execution does not
\* abort, every request of the last Assistant message gets a ToolMessage
\* with its id, and the agent node or END is next.
C6_Dispatch ==
    ((graph = "rag" /\ pc = "retriever_agent") \/ (graph = "drafter" /\ pc = "tools")) =>
        LET calls == Last(messages).tool_calls
        IN  /\ pc' \in {AgentNode(graph), "END"}
            /\ \A i \in 1..Len(calls) :
                  \E j \in ToolResults(messages') :
                      j > Len(messages) /\ messages'[j].tool_call_id = calls[i].id

C6_ToolFailureContained == [][C6_Dispatch]_vars

\* C7: in the ReAct and RAG graphs the nodes alternate agent, tools, agent,
\* ...; when the model has answered n times with tool calls, the executor
\* has made n agent calls and n - 1 completed dispatch rounds before the
\* n-th dispatch and n of each after it; at END the history holds n
\* Assistant messages with tool calls and one without, which is the last
\* message, after exactly n dispatch rounds and n + 1 agent calls.
ToolAnswers(state) ==
    Len(SelectSeq(state, LAMBDA m : m.type = "ai" /\ m.tool_calls # <<>>))

Answers(state) == Len(SelectSeq(state, LAMBDA m : m.type = "ai"))

C7_Counts ==
    graph \in {"react", "rag"} =>
        /\ pc = "END" =>
              /\ rounds = ToolAnswers(messages)
              /\ llmCalls = rounds + 1
              /\ Answers(messages) = llmCalls
              /\ Last(messages).type = "ai"
              /\ Last(messages).tool_calls = <<>>
        /\ pc = AgentNode(graph) => llmCalls = rounds /\ ToolAnswers(messages) = rounds
        /\ pc = ToolsNode(graph) => llmCalls = rounds + 1 /\ ToolAnswers(messages) = llmCalls

C7_Alternate ==
    graph \in {"react", "rag"} =>
        /\ pc = AgentNode(graph) => pc' \in {ToolsNode(graph), "END"}
        /\ pc = ToolsNode(graph) => pc' \in {AgentNode(graph), "raised"}

C7_RoundsAndCalls == []C7_Counts /\ [][C7_Alternate]_vars

\* the tool loop of two rounds: three agent calls, two dispatches, END
C7_Witness ==
    /\ graph = "react" /\ pc = "END" /\ rounds = 2 /\ llmCalls = 3
    /\ ToolAnswers(messages) = 2

\* C8: in the ReAct and RAG graphs, when every node call that can be made
\* is made, a pending dispatch leads back to the agent node (or to the
\* abort by a raising tool), and once the model has returned an Assistant
\* message without tool calls the execution reaches END with that message
\* as the last of the final state.
ModelStopped ==
    /\ graph \in {"react", "rag"}
    /\ messages # <<>>
    /\ Last(messages).type = "ai"
    /\ Last(messages).tool_calls = <<>>

AtEnd == pc = "END" /\ ModelStopped

DispatchPending == graph \in {"react", "rag"} /\ pc = ToolsNode(graph)

DispatchOver == pc \in {AgentNode(graph), "raised"}

C8_ReachesEnd == (ModelStopped ~> AtEnd) /\ (DispatchPending ~> DispatchOver)

\* the model stopped asking for tools after one completed RAG round
C8_Witness ==
    /\ graph = "rag" /\ pc = "END" /\ rounds = 1 /\ llmCalls = 2

\* C9: in the ReAct and RAG graphs the routing does not depend on how many
\* rounds were made: an execution is at END only after a response without
\* tool calls, a response with tool calls always leads to the tool node,
\* and a tool node that returns always leads back to the agent node.
AllAnswersCarryCalls(state) ==
    \A i \in 1..Len(state) : state[i].type = "ai" => state[i].tool_calls # <<>>

Edges(g) ==
    CASE g = "react" -> DOMAIN ReActEdges
      [] g = "rag" -> DOMAIN RagEdges
      [] OTHER -> DOMAIN DrafterEdges

C10_RegisteredLabel ==
    /\ pc # "config_error"
    /\ label \notin Raises
    /\ label # "none" => label \in Edges(graph)
    /\ (pc = "raised") => graph = "rag"

\* the Drafter's routing function ran on a history without a save
\* confirmation and sent the execution back to the agent node
C10_Witness ==
    /\ graph = "drafter" /\ label = "continue" /\ pc = "agent" /\ rounds = 2

----------------------------------------------------------------------------
(* divide *)

\* the operands of the divide request the model made
DivideArgs == messages[2].tool_calls[1].args

\* C11: divide never fails; for every a, divide(a, 0) is the infinite
\* sentinel, and for b # 0 the result is the float q with q * b = a.  The
\* tools node hands the model "inf" exactly when b = 0, and never an error.
C11_DivideTotal ==
    LET a == DivideArgs.a
        b == DivideArgs.b
        v == divide(a, b)
    IN  /\ v.kind \in {"inf", "float"}
        /\ (b = 0) => v = Infinity
        /\ (b # 0) => /\ v.kind = "float"
                      /\ v.den # 0
                      /\ v.num * b = a * v.den
        /\ (pc = "our_agent") =>
              /\ Last(messages).type = "tool"
              /\ Last(messages).content[1] # "Error"
              /\ (Last(messages).content = <<"inf">>) <=> (b = 0)

\* a negative numerator over zero has been answered with the sentinel
C11_Witness ==
    /\ pc = "our_agent"
    /\ DivideArgs.a < 0 /\ DivideArgs.b = 0
    /\ Last(messages).content = <<"inf">>

----------------------------------------------------------------------------
(* retrieve *)

NoInformationNotice ==
    <<"No", "relevant", "information", "found", "in", "the", "document", ".">>

\* content lists exactly the chunks docs, in that order, numbered from 1
ListsChunks(content, docs) ==
    /\ Len(content) = 5 * Len(docs) - 1
    /\ \A i \in 1..Len(docs) :
          /\ content[5 * i - 4] = "Result"
          /\ content[5 * i - 3] = Digit(i)
          /\ content[5 * i - 2] = ":"
          /\ content[5 * i - 1] = docs[i]
          /\ (i < Len(docs)) => content[5 * i] = "\n\n"

\* a step of retriever_agent in which take_action returns
C12_Dispatch ==
    /\ graph = "rag" /\ pc = "retriever_agent" /\ pc' # "raised"
    /\ messages' # messages

\* C12: when take_action returns, every retrieve request has a ToolMessage
\* at its position with the request's id; its content is the "no relevant
\* information" notice if the search returned no chunk, and otherwise the
\* n <= TopK returned chunks in the order returned, numbered 1..n; the
\* graph goes on to the llm node.
C12_RetrieveResult ==
    [][C12_Dispatch =>
        LET calls == Last(messages).tool_calls
            base == Len(messages)
            idx == SelectSeq([i \in 1..Len(calls) |-> i],
                             LAMBDA i : calls[i].name = "retrieve")
        IN  /\ pc' = "llm"
            /\ Len(messages') = base + Len(calls)
            /\ Len(retrieved') = Len(idx)
            /\ \A k \in 1..Len(idx) :
                  LET m == messages'[base + idx[k]]
                      docs == retrieved'[k]
                  IN  /\ m.type = "tool"
                      /\ m.tool_call_id = calls[idx[k]].id
                      /\ Len(docs) <= TopK
                      /\ (docs = <<>>) => m.content = NoInformationNotice
                      /\ (docs # <<>>) => ListsChunks(m.content, docs)
    ]_vars

\* one dispatch answered a search without chunks with the notice and a
\* search with two chunks with their listing
C12_Witness ==
    /\ graph = "rag" /\ pc = "llm" /\ rounds >= 1
    /\ Len(retrieved) = 2
    /\ retrieved[1] = <<>> /\ Len(retrieved[2]) = 2
    /\ messages[Len(messages) - 1].content = NoInformationNotice
    /\ ListsChunks(Last(messages).content, retrieved[2])

----------------------------------------------------------------------------
(* The input loops *)

\* a step of one of the loops
LoopStep == loop_pc = "test" /\ loopVars' # loopVars

\* C13: in the three loops a line that is "exit" or "quit" when lower-cased
\* ends the loop without an invocation of the agent; every other line
\* invokes the agent once, after which the loop reads the next line.
C13_Sentinels ==
    [][LoopStep =>
        IF Lower(user_input) \in {"exit", "quit"}
        THEN loop_pc' = "done" /\ invocations' = invocations
        ELSE /\ invocations' = invocations + 1
             /\ loop_pc' = "test"
             /\ prompts' = prompts + 1
    ]_vars

\* the same for the line "exit" alone, which the three loops agree on
C13_ExitEnds ==
    [][(LoopStep /\ Lower(user_input) = "exit") =>
          (loop_pc' = "done" /\ invocations' = invocations)]_vars

----------------------------------------------------------------------------
(* State replacement and mutation in the memory agent *)

\* a step of the memory agent's loop that invokes the agent
MemoryInvocation ==
    script = "memory" /\ LoopStep /\ ~LoopEnds("memory", user_input)

\* the list handed to agent.invoke, as it is when the call is made
PassedList == Append(heap[conversation_history], HumanMessage(<<user_input>>))

\* C14 as stated: no node changes the state it was given; when
\* agent.invoke returns, the list object the caller passed holds what it held
\* when the call was made.
C14_InputUntouched ==
    [][MemoryInvocation => heap'[conversation_history] = PassedList]_vars

\* C14: process_message of the memory agent changes the list it was given:
\* when agent.invoke returns, the list object the caller passed holds what
\* it held at the call followed by one Assistant message, no other list
\* object exists, and conversation_history still names that object.
C14_AppendsInPlace ==
    [][MemoryInvocation =>
        /\ Len(heap') = Len(heap)
        /\ conversation_history' = conversation_history
        /\ Len(heap'[conversation_history]) = Len(PassedList) + 1
        /\ IsPrefix(PassedList, heap'[conversation_history])
        /\ Last(heap'[conversation_history]).type = "ai"
        /\ Last(heap'[conversation_history]).content \in ChatAnswers
    ]_vars

\* two invocations have appended their answers to the one list object
C14_Witness ==
    /\ script = "memory" /\ invocations = 2
    /\ Len(heap) = 1
    /\ Len(heap[conversation_history]) >= 4
    /\ Last(heap[conversation_history]).type = "ai"

----------------------------------------------------------------------------
(* The Drafter: when it ends, what it saves, how its history grows *)

\* position of the last Assistant message of the history (0 if none)
LastAI(state) ==
    LET ais == { i \in 1..Len(state) : state[i].type = "ai" }
    IN  IF ais = {} THEN 0 ELSE CHOOSE i \in ais : \A j \in ais : j <= i

\* result j is the confirmation save returns after writing the file
SaveConfirmation(state, j) ==
    /\ state[j].type = "tool" /\ state[j].name = "save"
    /\ Len(state[j].content) >= 4
    /\ SubSeq(state[j].content, 1, 4) = <<"Document", "successfully", "saved", "to">>

\* C15: whenever the Drafter graph is at END, save was called in the last
\* dispatch round and wrote the document to the file: one of the results
\* after the last Assistant message is the confirmation of a successful
\* save.  An update result or a failed save does not end the run.
C15_EndsOnlyOnSave ==
    (graph = "drafter" /\ pc = "END") =>
        /\ file.written
        /\ \E j \in ToolResults(messages) :
              j > LastAI(messages) /\ SaveConfirmation(messages, j)

----------------------------------------------------------------------------
(* The retrieval index *)

\* C16: after any number of startups against the same document and persist
\* directory the persisted collection holds each chunk of the document
\* exactly once, and no search returns the same chunk twice.
C16_BuiltOnce ==
    /\ (startups >= 1) =>
          \A i \in 1..Len(texts) :
             Cardinality({ j \in 1..Len(vectorstore) :
                             vectorstore[j].page_content = texts[i] }) = 1
    /\ \A i, j \in 1..Len(found) : found[i] = found[j] => i = j

\* after the first startup the two statements hold
C16_FirstStartup ==
    (startups = 1) =>
        /\ Len(vectorstore) = Len(texts)
        /\ \A i, j \in 1..Len(found) : found[i] = found[j] => i = j

----------------------------------------------------------------------------
(* Requests and results at the agent node *)

\* C17: in the three graphs, whenever the agent node is about to run, every
\* request of every Assistant message of the history is answered: the k-th
\* message after the Assistant message is a ToolMessage with the id of its
\* k-th request.
C17_ResolvedAtAgent ==
    (graph \in Graphs /\ pc = AgentNode(graph)) =>
        \A i \in 1..Len(messages) :
           messages[i].type = "ai" =>
              \A k \in 1..Len(messages[i].tool_calls) :
                 /\ i + k <= Len(messages)
                 /\ messages[i + k].type = "tool"
                 /\ messages[i + k].tool_call_id = messages[i].tool_calls[k].id

\* the llm node of the RAG graph is reached after two dispatch rounds, one
\* of them for a message with two requests
C17_Witness ==
    /\ graph = "rag" /\ pc = "llm" /\ rounds = 2
    /\ \E i \in 1..Len(messages) : Len(messages[i].tool_calls) = 2

----------------------------------------------------------------------------
(* The Drafter's should_continue *)

\* m is a ToolMessage whose lower-cased content has "saved" and "document"
MentionsSavedDocument(m) ==
    /\ m.type = "tool"
    /\ \E i \in 1..Len(m.content) : Lower(m.content[i]) = "saved"
    /\ \E i \in 1..Len(m.content) : Lower(m.content[i]) = "document"

----------------------------------------------------------------------------
(* The Drafter's document buffer and the file *)

\* the requests of the history as <<position of the message, index>>
RequestPositions(state) ==
    UNION { { <<i, k>> : k \in 1..Len(state[i].tool_calls) } : i \in 1..Len(state) }

\* request p comes before request q in request order
Before(p, q) == p[1] < q[1] \/ (p[1] = q[1] /\ p[2] < q[2])

LatestOf(ps) == CHOOSE p \in ps : \A q \in ps : q = p \/ Before(q, p)

\* the save requests answered with the confirmation of a written file
SuccessfulSaves(state) ==
    { p \in RequestPositions(state) :
        /\ state[p[1]].tool_calls[p[2]].name = "save"
        /\ p[1] + p[2] <= Len(state)
        /\ SaveConfirmation(state, p[1] + p[2]) }

\* the content argument of the latest update request before request p
LatestUpdateBefore(state, p) ==
    LET ups == { q \in RequestPositions(state) :
                   state[q[1]].tool_calls[q[2]].name = "update" /\ Before(q, p) }
    IN  IF ups = {} THEN <<>>
        ELSE state[LatestOf(ups)[1]].tool_calls[LatestOf(ups)[2]].args.content

\* the file holds what the latest successful save should have written
FileHoldsLatestUpdate ==
    (graph = "drafter" /\ SuccessfulSaves(messages) # {}) =>
        /\ file.written
        /\ file.content = LatestUpdateBefore(messages, LatestOf(SuccessfulSaves(messages)))

\* C19: in the Drafter the buffer changes only in a step of the tools node
\* that runs an update request (save and the agent node leave it as it is),
\* and after every step the file holds the content argument of the latest
\* update request that precedes the latest successful save in request
\* order, or the empty string if there is none, also when both requests
\* are in one Assistant message.
C19_SaveWritesLatestUpdate ==
    [][/\ (document_content' # document_content) =>
              /\ graph = "drafter" /\ pc = "tools"
              /\ \E k \in 1..Len(Last(messages).tool_calls) :
                    Last(messages).tool_calls[k].name = "update"
       /\ FileHoldsLatestUpdate'
    ]_vars

\* the first half on its own: only update requests change the buffer
C19_OnlyUpdateWrites ==
    [][(document_content' # document_content) =>
          /\ graph = "drafter" /\ pc = "tools"
          /\ \E k \in 1..Len(Last(messages).tool_calls) :
                Last(messages).tool_calls[k].name = "update"
    ]_vars

----------------------------------------------------------------------------
(* The Drafter's agent node and the reducer *)

\* C20: every step of the Drafter's agent node extends the history by
\* exactly two messages, the User message and then the model's Assistant
\* message; the history before the step is kept as it was, in place and
\* once, although the node returns it together with the new messages.
C20_AgentAddsTwo ==
    [][(graph = "drafter" /\ pc = "agent" /\ pc' = "tools") =>
        /\ Len(messages') = Len(messages) + 2
        /\ IsPrefix(messages, messages')
        /\ messages'[Len(messages) + 1].type = "human"
        /\ messages'[Len(messages) + 2].type = "ai"
        /\ \A i, j \in 1..Len(messages') :
              messages'[i].id = messages'[j].id => i = j
    ]_vars

\* the agent node has run a second time, on a history with tool results
C20_Witness ==
    /\ graph = "drafter" /\ pc = "tools" /\ llmCalls = 2
    /\ Len(messages) >= 5
    /\ \E j \in 1..Len(messages) : messages[j].type = "tool"
    /\ messages[Len(messages) - 1].type = "human"
    /\ Last(messages).type = "ai"

----------------------------------------------------------------------------
(* The memory agent's history *)

\* C21: every iteration of the memory agent's loop on a line that does not
\* end it leaves conversation_history equal to what it was before the
\* iteration, followed by the User message for that line and then one
\* Assistant message with the model's answer: two more messages, the
\* earlier ones kept in place.
C21_TwoPerTurn ==
    [][MemoryInvocation =>
        LET before == heap[conversation_history]
            after == heap'[conversation_history']
        IN  /\ Len(after) = Len(before) + 2
            /\ SubSeq(after, 1, Len(before)) = before
            /\ after[Len(before) + 1] = HumanMessage(<<user_input>>)
            /\ after[Len(before) + 2].type = "ai"
            /\ after[Len(before) + 2].content \in ChatAnswers
            /\ after[Len(before) + 2].tool_calls = <<>>
    ]_vars

\* two turns on top of a loaded exchange: six messages, roles alternating
C21_Witness ==
    /\ script = "memory" /\ invocations = 2
    /\ Len(heap[conversation_history]) = 6
    /\ \A i \in 1..6 :
          heap[conversation_history][i].type = (IF i % 2 = 1 THEN "human" ELSE "ai")

----------------------------------------------------------------------------
(* The conversation log *)

\* content has no line end in it
SingleLine(content) == \A i \in 1..Len(content) : content[i] # "\n"

\* C22: a history of User and Assistant messages with single-line contents
\* that is written to the log at exit and loaded at the next start comes
\* back with the same number of messages, the same roles in the same order
\* and the same contents.
C22_RoundTrip ==
    (/\ log_pc = "loaded"
     /\ \A i \in 1..Len(log_history) : SingleLine(log_history[i].content)) =>
        /\ Len(reloaded) = Len(log_history)
        /\ \A i \in 1..Len(log_history) :
              /\ reloaded[i].type = log_history[i].type
              /\ reloaded[i].content = log_history[i].content

\* what does come back: the same number of messages with the same roles in
\* the same order
C22_RolesComeBack ==
    (log_pc = "loaded") =>
        /\ Len(reloaded) = Len(log_history)
        /\ \A i \in 1..Len(log_history) : reloaded[i].type = log_history[i].type

====
